---- MODULE Spec2Model ----
(***************************************************************************)
(* A model of the openshield gateway: the lifecycle of StartServer         *)
(* (src/server/server.go), the usage recorder lib.Usage                    *)
(* (src/unnamed/part_000) and the rate-limited routes that setupRoute      *)
(* registers (src/server/server.go).                                       *)
(***************************************************************************)
EXTENDS Integers, Sequences, FiniteSets, TLC

\* ------------------------------------------------------------------ bounds
MaxSignals == 2        \* termination signals the environment delivers
MaxUsageCalls == 2     \* calls of lib.Usage
MaxTokens == 1         \* token counts range over 0..MaxTokens (+ offsets)
MaxTime == 2           \* the clock runs from 0 to MaxTime seconds
MaxRequests == 3       \* requests sent to the rate-limited routes
MaxLimit == 2          \* RateLimit.Max ranges over 1..MaxLimit
MaxExpiration == 2     \* RateLimit.Expiration ranges over 1..MaxExpiration
MaxWindow == 1         \* RateLimit.Window ranges over 1..MaxWindow
NumInstances == 2      \* gateway processes sharing the store
MaxInflight == 2       \* requests inside a rate limiter at the same time
MaxServed == 2         \* requests served on the routes of setupOpenAIRoutes
MaxStopCalls == 1      \* calls of StopServer

\* ------------------------------------------------------- values and inputs
Nil == "nil"
ErrBind == "listen: address already in use"
ErrServe == "accept: too many open files"
ErrCanceled == "context canceled"
ListenerErrors == {ErrBind, ErrServe}

ModelNames == {"gpt-4", "no-such-model"}
FinishReasons == {"stop", "length"}
RequestTypes == {"chat"}
NoRecord == [ModelID |-> 0]
Clients == {"10.0.0.1", "10.0.0.2"}
Paths == {"/a", "/b"}
Instances == 1..NumInstances
Creds == {"valid", "invalid"}
RedisURI == "redis://store:6379"
BadRedisURI == ":6379"
RedisURIs == {RedisURI, BadRedisURI}
ErrDial == "httprateredis: unable to dial redis host"
RouteSettings ==
  [Max : 1..MaxLimit, Expiration : 1..MaxExpiration, Window : 1..MaxWindow]
Methods == {"GET", "POST", "OPTIONS"}
ReqPaths == {<<"openai", "v1", "models">>, <<"openai", "v1", "models", "gpt-4">>,
             <<"openai", "v1", "chat", "completions">>, <<"health">>}
NoHandler == "none"
NoReq == [method |-> "none", path |-> <<>>, cred |-> "none", status |-> 0,
          handler |-> NoHandler]
ZeroConfig == [Port |-> 0, UsageLoggingEnabled |-> FALSE]
FileConfigs == {[Port |-> 8080, UsageLoggingEnabled |-> e] : e \in BOOLEAN}

VARIABLES
  libConfig,    \* what lib.GetConfig() returns (the configuration file)
  config,       \* package variable server.config
  main,         \* position of StartServer
  listener,     \* the task running http.ListenAndServe
  watcher,      \* the task running the signal select
  notify,       \* signal.Notify(quit, ...) is in effect
  quit,         \* number of signals buffered in the channel quit (cap 1)
  ctxParent,    \* the context of context.WithCancel is cancelled
  ctxGroup,     \* the context of errgroup.WithContext is cancelled
  gErr,         \* errgroup's first non-nil error
  retVal,       \* what StartServer returned
  listenerErr,  \* what the listener task returned
  watcherErr,   \* what the signal-watcher task returned
  signals,      \* signals delivered so far
  sigHealthy,   \* a signal was caught while the listener was serving
  usageCalls,   \* calls of Usage so far
  resolveCalls, \* calls of GetModel so far
  insertCalls,  \* calls of db.Create so far
  lastInsert,   \* the record handed to the last db.Create
  lastUsage,    \* arguments and outcome of the last call of Usage
  routes,       \* the routes registered through setupRoute, by path
  now,          \* the clock, in seconds
  store,        \* the shared store: counter key -> count (absent = 0)
  inflight,     \* requests between the limiter's Get and its decision
  requests,     \* requests that reached a rate limiter so far
  admLog,       \* requests admitted, by client, path and arrival time
  lastResp,     \* status of the last response sent on a rate-limited route
  router,       \* the routes registered on the package variable router
  lastReq,      \* the last request served by the router and its outcome
  served,       \* requests the listener accepted so far
  stopCalls,    \* calls of StopServer so far
  stopRet       \* what the last call of StopServer returned

lifeVars == <<config, main, listener, watcher, notify, quit, ctxParent,
              ctxGroup, gErr, retVal, listenerErr, watcherErr, signals,
              sigHealthy>>
usageVars == <<usageCalls, resolveCalls, insertCalls, lastInsert, lastUsage>>
limitVars == <<routes, now, store, inflight, requests, admLog, lastResp>>
servVars == <<router, lastReq, served, stopCalls, stopRet>>
vars == <<libConfig, lifeVars, usageVars, limitVars, servVars>>

\* ------------------------------------------------------------- lifecycle
\* errgroup.Group.Go: when the task's function returns err, the first
\* non-nil error is kept and cancels the group's context.
\* The group's context is a child of the parent context: cancelling the
\* parent cancels it too.
\* errOnce left out: a later error replaces the first one
FirstErrorLastWins(err) == IF err # Nil THEN err ELSE gErr

FirstError(err) == IF err # Nil /\ gErr = Nil THEN err ELSE gErr

TaskReturn(err, parentCancelled) ==
  /\ gErr' = FirstError(err)
  /\ ctxGroup' = (ctxGroup \/ parentCancelled \/ (err # Nil /\ gErr = Nil))

\* setupOpenAIRoutes with the chat route registered through r.Get
setupOpenAIRoutesChatAsGet ==
  {[method |-> "GET", pattern |-> <<"openai", "v1", "models">>,
    chain |-> <<"AuthOpenShieldMiddleware", "ListModelsHandler">>],
   [method |-> "GET", pattern |-> <<"openai", "v1", "models", "{model}">>,
    chain |-> <<"AuthOpenShieldMiddleware", "GetModelHandler">>],
   [method |-> "GET", pattern |-> <<"openai", "v1", "chat", "completions">>,
    chain |-> <<"AuthOpenShieldMiddleware", "ChatCompletionHandler">>]}

\* setupOpenAIRoutes: three routes under /openai/v1, each handler wrapped
\* in the Auth Gate and in nothing else.
setupOpenAIRoutes ==
  {[method |-> "GET", pattern |-> <<"openai", "v1", "models">>,
    chain |-> <<"AuthOpenShieldMiddleware", "ListModelsHandler">>],
   [method |-> "GET", pattern |-> <<"openai", "v1", "models", "{model}">>,
    chain |-> <<"AuthOpenShieldMiddleware", "GetModelHandler">>],
   [method |-> "POST", pattern |-> <<"openai", "v1", "chat", "completions">>,
    chain |-> <<"AuthOpenShieldMiddleware", "ChatCompletionHandler">>]}

\* StartServer up to g.Wait(): load the configuration, build the router,
\* create the contexts and start both tasks.
StartServer ==
  /\ main = "idle"
  /\ config' = libConfig
  /\ main' = "waiting"
  /\ listener' = "starting"
  /\ watcher' = "starting"
  /\ router' = setupOpenAIRoutes
  /\ UNCHANGED <<libConfig, notify, quit, ctxParent, ctxGroup, gErr, retVal,
                 listenerErr, watcherErr, signals, sigHealthy, usageVars, limitVars,
                 lastReq, served, stopCalls, stopRet>>

\* http.ListenAndServe binds the port: it serves, or returns the bind error.
ListenerBind ==
  /\ main = "waiting"
  /\ listener = "starting"
  /\ \/ /\ listener' = "serving"
        /\ UNCHANGED <<gErr, ctxGroup, listenerErr>>
     \/ /\ listener' = "done"
        /\ listenerErr' = ErrBind
        /\ TaskReturn(ErrBind, FALSE)
  /\ UNCHANGED <<libConfig, config, main, watcher, notify, quit, ctxParent,
                 retVal, watcherErr, signals, sigHealthy, usageVars, limitVars, servVars>>

\* http.ListenAndServe returns while serving: only with an error of the
\* accept loop; it takes no context and nothing in the program closes it.
ListenerServeError ==
  /\ main = "waiting"
  /\ listener = "serving"
  /\ listener' = "done"
  /\ listenerErr' = ErrServe
  /\ TaskReturn(ErrServe, FALSE)
  /\ UNCHANGED <<libConfig, config, main, watcher, notify, quit, ctxParent,
                 retVal, watcherErr, signals, sigHealthy, usageVars, limitVars, servVars>>

\* quit := make(chan os.Signal, 1); signal.Notify(quit, ...)
WatcherNotify ==
  /\ main = "waiting"
  /\ watcher = "starting"
  /\ watcher' = "selecting"
  /\ notify' = TRUE
  /\ UNCHANGED <<libConfig, config, main, listener, quit, ctxParent, ctxGroup,
                 gErr, retVal, listenerErr, watcherErr, signals, sigHealthy,
                 usageVars, limitVars, servVars>>

\* A watcher that returns the context's error after cancelling
WatcherSignalReturnsCtxErr ==
  /\ main = "waiting"
  /\ watcher = "selecting"
  /\ quit > 0
  /\ quit' = quit - 1
  /\ ctxParent' = TRUE
  /\ watcher' = "done"
  /\ watcherErr' = ErrCanceled
  /\ TaskReturn(ErrCanceled, TRUE)
  /\ UNCHANGED <<libConfig, config, main, listener, notify, retVal,
                 listenerErr, signals, sigHealthy, usageVars, limitVars, servVars>>

\* case <-quit: cancel(); return nil
WatcherSignal ==
  /\ main = "waiting"
  /\ watcher = "selecting"
  /\ quit > 0
  /\ quit' = quit - 1
  /\ ctxParent' = TRUE
  /\ watcher' = "done"
  /\ watcherErr' = Nil
  /\ TaskReturn(Nil, TRUE)
  /\ UNCHANGED <<libConfig, config, main, listener, notify, retVal,
                 listenerErr, signals, sigHealthy, usageVars, limitVars, servVars>>

\* case <-ctx.Done(): return ctx.Err()
WatcherCtxDone ==
  /\ main = "waiting"
  /\ watcher = "selecting"
  /\ ctxGroup
  /\ watcher' = "done"
  /\ watcherErr' = ErrCanceled
  /\ TaskReturn(ErrCanceled, FALSE)
  /\ UNCHANGED <<libConfig, config, main, listener, notify, quit, ctxParent,
                 retVal, listenerErr, signals, sigHealthy, usageVars, limitVars, servVars>>

\* A Wait that returns as soon as one of the two tasks returned
WaitReturnAfterFirst ==
  /\ main = "waiting"
  /\ listener = "done" \/ watcher = "done"
  /\ retVal' = gErr
  /\ main' = "returned"
  /\ ctxGroup' = TRUE
  /\ ctxParent' = TRUE
  /\ UNCHANGED <<libConfig, config, listener, watcher, notify, quit, gErr,
                 listenerErr, watcherErr, signals, sigHealthy, usageVars, limitVars, servVars>>

\* g.Wait() returns once both tasks returned; StartServer returns its error
\* and the deferred cancel() runs.
WaitReturn ==
  /\ main = "waiting"
  /\ listener = "done"
  /\ watcher = "done"
  /\ retVal' = gErr
  /\ main' = "returned"
  /\ ctxGroup' = TRUE
  /\ ctxParent' = TRUE
  /\ UNCHANGED <<libConfig, config, listener, watcher, notify, quit, gErr,
                 listenerErr, watcherErr, signals, sigHealthy, usageVars, limitVars, servVars>>

\* The environment delivers SIGINT or SIGTERM. With signal.Notify in effect
\* the signal is put into quit unless its buffer is full; before that the
\* default disposition ends the process.
DeliverSignal ==
  /\ main = "waiting"
  /\ signals < MaxSignals
  /\ signals' = signals + 1
  /\ IF notify
       THEN /\ quit' = 1
            /\ main' = main
            /\ sigHealthy' = (sigHealthy \/ (listener = "serving" /\ watcher = "selecting"))
       ELSE /\ main' = "killed"
            /\ UNCHANGED <<quit, sigHealthy>>
  /\ UNCHANGED <<libConfig, config, listener, watcher, notify, ctxParent,
                 ctxGroup, gErr, retVal, listenerErr, watcherErr, usageVars, limitVars, servVars>>

\* ---------------------------------------------------------------- router
\* chi's matching of a request path against a route pattern: segment by
\* segment, a {model} segment matching any segment.
Match(pattern, path) ==
  /\ Len(pattern) = Len(path)
  /\ \A i \in 1..Len(pattern) : pattern[i] = "{model}" \/ pattern[i] = path[i]

\* lib.AuthOpenShieldMiddleware(handler) as registered by setupOpenAIRoutes:
\* the outcome of a matched route's chain for a credential.
RunChain(chain, cred) ==
  IF chain[1] = "AuthOpenShieldMiddleware" /\ cred # "valid"
    THEN [status |-> 401, handler |-> NoHandler]
    ELSE [status |-> 200, handler |-> chain[Len(chain)]]

\* The router matching by path alone, as r.Handle would register
DispatchIgnoresMethod(rt, method, path, cred) ==
  LET byPath == {r \in rt : Match(r.pattern, path)}
  IN IF method = "OPTIONS" THEN [status |-> 200, handler |-> NoHandler]
     ELSE IF byPath # {} THEN RunChain((CHOOSE r \in byPath : TRUE).chain, cred)
     ELSE [status |-> 404, handler |-> NoHandler]

\* The middleware stack and the router of StartServer on one request: the
\* CORS handler answers a preflight (OPTIONS with
\* Access-Control-Request-Method) itself; chi answers 404 when no route has
\* the path, 405 when the path is registered under other methods only, and
\* otherwise runs the chain of the matched route.
Dispatch(rt, method, path, cred) ==
  LET byPath == {r \in rt : Match(r.pattern, path)}
      matched == {r \in byPath : r.method = method}
  IN IF method = "OPTIONS" THEN [status |-> 200, handler |-> NoHandler]
     ELSE IF matched # {} THEN RunChain((CHOOSE r \in matched : TRUE).chain, cred)
     ELSE IF byPath # {} THEN [status |-> 405, handler |-> NoHandler]
     ELSE [status |-> 404, handler |-> NoHandler]

\* The listener accepts a request and the router serves it.
Serve(method, path, cred) ==
  /\ main = "waiting"
  /\ listener = "serving"
  /\ served < MaxServed
  /\ served' = served + 1
  /\ lastReq' = [method |-> method, path |-> path, cred |-> cred,
                 status |-> Dispatch(router, method, path, cred).status,
                 handler |-> Dispatch(router, method, path, cred).handler]
  /\ UNCHANGED <<libConfig, lifeVars, usageVars, limitVars, router, stopCalls,
                 stopRet>>

\* The credentials worth telling apart: a request that matches no route is
\* never asked for its credential.
CredsFor(method, path) ==
  IF \E r \in setupOpenAIRoutes : r.method = method /\ Match(r.pattern, path)
    THEN Creds ELSE {"valid"}

ServeCall == \E method \in Methods, path \in ReqPaths :
               \E cred \in CredsFor(method, path) : Serve(method, path, cred)

\* StopServer prints a line and returns nil.
\* A StopServer that resets the package's configuration
StopServerClearsConfig ==
  /\ stopCalls < MaxStopCalls
  /\ stopCalls' = stopCalls + 1
  /\ stopRet' = Nil
  /\ config' = ZeroConfig
  /\ UNCHANGED <<libConfig, main, listener, watcher, notify, quit, ctxParent,
                 ctxGroup, gErr, retVal, listenerErr, watcherErr, signals,
                 sigHealthy, usageVars, limitVars, router, lastReq, served>>

\* A StopServer that cancels the context StartServer created
StopServerCancels ==
  /\ stopCalls < MaxStopCalls
  /\ stopCalls' = stopCalls + 1
  /\ stopRet' = Nil
  /\ ctxParent' = TRUE
  /\ ctxGroup' = TRUE
  /\ UNCHANGED <<libConfig, config, main, listener, watcher, notify, quit,
                 gErr, retVal, listenerErr, watcherErr, signals, sigHealthy,
                 usageVars, limitVars, router, lastReq, served>>

\* func StopServer() error: prints a line and returns nil.
StopServer ==
  /\ stopCalls < MaxStopCalls
  /\ stopCalls' = stopCalls + 1
  /\ stopRet' = Nil
  /\ UNCHANGED <<libConfig, lifeVars, usageVars, limitVars, router, lastReq,
                 served>>

\* ----------------------------------------------------------------- usage
\* lib.GetModel: the model catalog resolves a name to a record or fails.
GetModel(modelName) ==
  IF modelName = "gpt-4" THEN [Id |-> 7, err |-> Nil]
                         ELSE [Id |-> 0, err |-> "record not found"]

\* The argument lists Usage is called with: the four counts of one call
\* differ from each other, so that exchanging two of them shows.
UsageArgs ==
  {[modelName |-> m, predictedTokensCount |-> n, promptTokensCount |-> n + 10,
    completionTokens |-> n + 20, totalTokens |-> 2 * n + 30,
    finishReason |-> f, requestType |-> t] :
     m \in ModelNames, n \in 0..MaxTokens, f \in FinishReasons, t \in RequestTypes}

\* db.Create succeeds or fails; Usage does not look at its result.
InsertResults == {"ok", "error"}

\* The record with the prompt and completion counts exchanged
UsageRecordSwapped(a, id) ==
  [ModelID |-> id,
   PredictedTokensCount |-> a.predictedTokensCount,
   PromptTokensCount |-> a.completionTokens,
   CompletionTokens |-> a.promptTokensCount,
   TotalTokens |-> a.totalTokens,
   FinishReason |-> a.finishReason,
   RequestType |-> a.requestType]

\* models.Usage{...} as built by Usage from its arguments
UsageRecord(a, id) ==
  [ModelID |-> id,
   PredictedTokensCount |-> a.predictedTokensCount,
   PromptTokensCount |-> a.promptTokensCount,
   CompletionTokens |-> a.completionTokens,
   TotalTokens |-> a.totalTokens,
   FinishReason |-> a.finishReason,
   RequestType |-> a.requestType]

\* Usage without the test of config.Settings.UsageLogging.Enabled
UsageIgnoresFlag(a) ==
  /\ usageCalls < MaxUsageCalls
  /\ usageCalls' = usageCalls + 1
  /\ resolveCalls' = resolveCalls + 1
  /\ IF GetModel(a.modelName).err # Nil
       THEN /\ lastUsage' = [args |-> a, outcome |-> "dropped", insert |-> "none", ret |-> "returned"]
            /\ UNCHANGED <<insertCalls, lastInsert>>
       ELSE /\ insertCalls' = insertCalls + 1
            /\ lastInsert' = UsageRecord(a, GetModel(a.modelName).Id)
            /\ \E res \in InsertResults :
                 lastUsage' = [args |-> a, outcome |-> "inserted", insert |-> res,
                               ret |-> "returned"]
  /\ UNCHANGED <<libConfig, lifeVars, limitVars, servVars>>

\* Usage without the return after the failed GetModel: the record is built
\* from the zero model and inserted
UsageInsertsUnresolved(a) ==
  /\ usageCalls < MaxUsageCalls
  /\ usageCalls' = usageCalls + 1
  /\ IF libConfig.UsageLoggingEnabled
       THEN /\ resolveCalls' = resolveCalls + 1
            /\ insertCalls' = insertCalls + 1
            /\ lastInsert' = UsageRecord(a, GetModel(a.modelName).Id)
            /\ \E res \in InsertResults :
                 lastUsage' = [args |-> a, outcome |-> "inserted", insert |-> res,
                               ret |-> "returned"]
       ELSE /\ lastUsage' = [args |-> a, outcome |-> "disabled", insert |-> "none", ret |-> "returned"]
            /\ UNCHANGED <<resolveCalls, insertCalls, lastInsert>>
  /\ UNCHANGED <<libConfig, lifeVars, limitVars, servVars>>

\* lib.Usage(modelName, ...)
Usage(a) ==
  /\ usageCalls < MaxUsageCalls
  /\ usageCalls' = usageCalls + 1
  /\ IF libConfig.UsageLoggingEnabled
       THEN /\ resolveCalls' = resolveCalls + 1
            /\ IF GetModel(a.modelName).err # Nil
                 THEN /\ lastUsage' = [args |-> a, outcome |-> "dropped", insert |-> "none", ret |-> "returned"]
                      /\ UNCHANGED <<insertCalls, lastInsert>>
                 ELSE /\ insertCalls' = insertCalls + 1
                      /\ lastInsert' = UsageRecord(a, GetModel(a.modelName).Id)
                      /\ \E res \in InsertResults :
                           lastUsage' = [args |-> a, outcome |-> "inserted",
                                         insert |-> res, ret |-> "returned"]
       ELSE /\ lastUsage' = [args |-> a, outcome |-> "disabled", insert |-> "none", ret |-> "returned"]
            /\ UNCHANGED <<resolveCalls, insertCalls, lastInsert>>
  /\ UNCHANGED <<libConfig, lifeVars, limitVars, servVars>>

UsageCall == \E a \in UsageArgs : Usage(a)

\* ---------------------------------------------------------- rate limiter
\* lib.AuthOpenShieldMiddleware(handler): the handler runs for a valid
\* credential; otherwise the response is 401 and the handler does not run.
AuthOpenShieldMiddleware(cred) == IF cred = "valid" THEN 200 ELSE 401

\* The handler setupRoute is given for a path: on "/a" a handler wrapped in
\* the Auth Gate, on "/b" a bare handler.
HandlerOf(path) == IF path = "/a" THEN "authHandler" ELSE "handler"

\* setupRoute(r, path, routeSettings, handler): the limit, the window length
\* Expiration * time.Second * Window (in seconds) and the chain
\* r.With(rateLimiter).Handle(path, handler), the limiter outermost.
setupRoute(path, routeSettings, handler) ==
  [Max |-> routeSettings.Max,
   Expiration |-> routeSettings.Expiration * routeSettings.Window,
   redis |-> RedisURI,
   chain |-> <<"rateLimiter", handler>>]

\* url.Parse(routeSettings.Redis.URI): a URI that starts with a colon has
\* no protocol scheme and does not parse.
ParseOK(uri) == uri # BadRedisURI

\* setupRoute up to the limiter: it panics when the URI does not parse or
\* when httprateredis.NewRedisLimitCounter returned the error counterErr.
setupRoutePanics(uri, counterErr) == ~ParseOK(uri) \/ counterErr # Nil

\* A limiter without key functions: one counter for all clients
KeyGlobal(client) == "*"

\* httprate.WithKeyFuncs(httprate.KeyByIP): the counter key is the client's
\* address and nothing else.
KeyByIP(client) == client

\* t.Truncate(windowLength)
Truncate(t, windowLength) == t - (t % windowLength)

\* The count the store holds for a key in the window starting at window.
Count(st, key, window) ==
  IF <<key, window>> \in DOMAIN st THEN st[<<key, window>>] ELSE 0

\* httprate's rate at time t: the count of the current window plus the count
\* of the previous window weighted by the part of it that the sliding window
\* still covers, rounded to the nearest integer (halves away from zero).
CalcRate(st, key, windowLength, t) ==
  LET currentWindow == Truncate(t, windowLength)
      previousWindow == currentWindow - windowLength
      currCount == Count(st, key, currentWindow)
      prevCount == Count(st, key, previousWindow)
      diff == t - currentWindow
  IN currCount + (2 * prevCount * (windowLength - diff) + windowLength) \div (2 * windowLength)

\* The limiter lets rate = limit through
AllowedOffByOne(rate, limit) == ~(rate > limit)

\* The limiter's test: 429 when rate + increment > limit, increment = 1.
Allowed(rate, limit) == ~(rate + 1 > limit)

\* The clock advances.
Tick ==
  /\ now < MaxTime
  /\ now' = now + 1
  /\ UNCHANGED <<libConfig, lifeVars, usageVars, servVars, routes, store, inflight,
                 requests, admLog, lastResp>>

\* A request of client on path reaches the limiter of instance inst: the
\* limiter takes its lock, computes the current window and reads the rate
\* from the store (LimitCounter.Get).
LimitGet(inst, path, client, cred) ==
  /\ listener = "serving"
  /\ path \in DOMAIN routes
  /\ requests < MaxRequests
  /\ Cardinality(inflight) < MaxInflight
  /\ \A q \in inflight : ~(q.inst = inst /\ q.path = path)
  /\ requests' = requests + 1
  /\ inflight' = inflight \cup
       {[inst |-> inst, path |-> path, client |-> client, cred |-> cred, t |-> now,
         rate |-> CalcRate(store, KeyByIP(client), routes[path].Expiration, now)]}
  /\ UNCHANGED <<libConfig, lifeVars, usageVars, servVars, routes, now, store, admLog,
                 lastResp>>

\* The limiter decides on the rate it read: over the limit it answers 429;
\* otherwise it increments the key's counter of the request's window
\* (LimitCounter.IncrementBy), releases its lock and calls the next handler.
LimitDecide(q) ==
  /\ q \in inflight
  /\ inflight' = inflight \ {q}
  /\ IF Allowed(q.rate, routes[q.path].Max)
       THEN LET k == <<KeyByIP(q.client), Truncate(q.t, routes[q.path].Expiration)>>
                status == IF routes[q.path].chain[2] = "authHandler"
                            THEN AuthOpenShieldMiddleware(q.cred) ELSE 200
            IN /\ store' = [x \in DOMAIN store \cup {k} |->
                              IF x = k THEN Count(store, k[1], k[2]) + 1 ELSE store[x]]
               /\ admLog' = [admLog EXCEPT ![<<q.client, q.path, q.t>>] = @ + 1]
               /\ lastResp' = status
       ELSE /\ lastResp' = 429
            /\ UNCHANGED <<store, admLog>>
  /\ UNCHANGED <<libConfig, lifeVars, usageVars, servVars, routes, now, requests>>

\* The instances are alike: a request goes to the first instance whose
\* limiter for the path is free.
FirstFree(inst, path) ==
  /\ \A q \in inflight : ~(q.inst = inst /\ q.path = path)
  /\ \A j \in Instances : j < inst => \E q \in inflight : q.inst = j /\ q.path = path

\* The credentials worth telling apart on a path: a bare handler never
\* looks at the credential.
CredsOn(path) == IF HandlerOf(path) = "authHandler" THEN Creds ELSE {"valid"}

Request == \E inst \in Instances, path \in Paths, client \in Clients :
             \E cred \in CredsOn(path) :
               FirstFree(inst, path) /\ LimitGet(inst, path, client, cred)

Decide == \E q \in inflight : LimitDecide(q)

\* Startup of a gateway whose routes are registered through setupRoute, up
\* to the port being bound and the watcher waiting: a panic of setupRoute
\* ends the process, otherwise the routes are registered and served.
SetupRoutes(rs, uri, counterErr) ==
  /\ main = "idle"
  /\ IF setupRoutePanics(uri, counterErr)
       THEN /\ main' = "panicked"
            /\ UNCHANGED <<config, listener, watcher, notify, routes, router>>
       ELSE /\ main' = "waiting"
            /\ config' = libConfig
            /\ listener' = "serving"
            /\ watcher' = "selecting"
            /\ notify' = TRUE
            /\ routes' = [p \in Paths |-> setupRoute(p, rs[p], HandlerOf(p))]
            /\ router' = setupOpenAIRoutes
  /\ UNCHANGED <<libConfig, quit, ctxParent, ctxGroup, gErr, retVal, listenerErr,
                 watcherErr, signals, sigHealthy, usageVars, now, store,
                 inflight, requests, admLog, lastResp, lastReq, served,
                 stopCalls, stopRet>>

Setup == \E rs \in [Paths -> RouteSettings], uri \in RedisURIs, counterErr \in {Nil, ErrDial} :
           SetupRoutes(rs, uri, counterErr)

\* ------------------------------------------------------- specifications
Init ==
  /\ libConfig \in FileConfigs
  /\ config = ZeroConfig
  /\ main = "idle"
  /\ listener = "notStarted"
  /\ watcher = "notStarted"
  /\ notify = FALSE
  /\ quit = 0
  /\ ctxParent = FALSE
  /\ ctxGroup = FALSE
  /\ gErr = Nil
  /\ retVal = Nil
  /\ listenerErr = Nil
  /\ watcherErr = Nil
  /\ signals = 0
  /\ sigHealthy = FALSE
  /\ usageCalls = 0
  /\ resolveCalls = 0
  /\ insertCalls = 0
  /\ lastInsert = NoRecord
  /\ lastUsage = [args |-> CHOOSE a \in UsageArgs : TRUE, outcome |-> "none", insert |-> "none", ret |-> "none"]
  /\ routes = <<>>
  /\ now = 0
  /\ store = <<>>
  /\ inflight = {}
  /\ requests = 0
  /\ admLog = [x \in Clients \X Paths \X (0..MaxTime) |-> 0]
  /\ lastResp = 0
  /\ router = {}
  /\ lastReq = NoReq
  /\ served = 0
  /\ stopCalls = 0
  /\ stopRet = "none"

Next ==
  \/ StartServer
  \/ ListenerBind
  \/ ListenerServeError
  \/ WatcherNotify
  \/ WatcherSignal
  \/ WatcherCtxDone
  \/ WaitReturn
  \/ DeliverSignal
  \/ UsageCall
  \/ ServeCall
  \/ StopServer

Spec == Init /\ [][Next]_vars

\* The scheduler runs every started task and StartServer itself; signals,
\* accept errors and calls of Usage come from outside and are not forced.
Fairness ==
  /\ WF_vars(StartServer)
  /\ WF_vars(ListenerBind)
  /\ WF_vars(WatcherNotify)
  /\ WF_vars(WatcherSignal)
  /\ WF_vars(WatcherCtxDone)
  /\ WF_vars(WaitReturn)

FairSpec == Spec /\ Fairness

\* A gateway that registers its routes through setupRoute, before startup.
LimitInit ==
  /\ libConfig = [Port |-> 8080, UsageLoggingEnabled |-> TRUE]
  /\ config = ZeroConfig
  /\ main = "idle"
  /\ listener = "notStarted"
  /\ watcher = "notStarted"
  /\ notify = FALSE
  /\ quit = 0
  /\ ctxParent = FALSE
  /\ ctxGroup = FALSE
  /\ gErr = Nil
  /\ retVal = Nil
  /\ listenerErr = Nil
  /\ watcherErr = Nil
  /\ signals = 0
  /\ sigHealthy = FALSE
  /\ usageCalls = 0
  /\ resolveCalls = 0
  /\ insertCalls = 0
  /\ lastInsert = NoRecord
  /\ lastUsage = [args |-> CHOOSE a \in UsageArgs : TRUE, outcome |-> "none", insert |-> "none", ret |-> "none"]
  /\ routes = <<>>
  /\ now = 0
  /\ store = <<>>
  /\ inflight = {}
  /\ requests = 0
  /\ admLog = [x \in Clients \X Paths \X (0..MaxTime) |-> 0]
  /\ lastResp = 0
  /\ router = {}
  /\ lastReq = NoReq
  /\ served = 0
  /\ stopCalls = 0
  /\ stopRet = "none"

LimitNext ==
  \/ Setup
  \/ Tick
  \/ Request
  \/ Decide

LimitSpec == LimitInit /\ [][LimitNext]_vars

\* ===================================================== lifecycle claims
\* C1: a termination signal caught while the listener is serving leads to
\* StartServer returning nil with both tasks stopped.
C1_SignalLeadsToCleanReturn ==
  sigHealthy ~> (main = "returned" /\ retVal = Nil
                 /\ listener = "done" /\ watcher = "done")

\* C2: when the listener task ended with an error and no signal was
\* delivered, StartServer returns, and what it returns is the listener's
\* error, not the watcher's context error.
C2_ListenerErrorIsReturned ==
  /\ (listener = "done" /\ signals = 0) ~> (main = "returned" \/ signals > 0)
  /\ [](main = "returned" /\ signals = 0
          => retVal = listenerErr /\ retVal \in ListenerErrors)

C2_Witness ==
  /\ main = "returned"
  /\ signals = 0
  /\ listenerErr = ErrBind
  /\ watcherErr = ErrCanceled

\* C3: once one task has finished the shared context is cancelled and the
\* other task finishes too, whichever of the two was first (a process ended
\* by an uncaught signal has no tasks left).
C3_FirstToFinishStopsTheOther ==
  /\ []((listener = "done" \/ watcher = "done") => ctxGroup)
  /\ (listener = "done") ~> (watcher = "done" \/ main = "killed")
  /\ (watcher = "done") ~> (listener = "done" \/ main = "killed")

\* ========================================================= usage claims
\* C9: with usage logging disabled no call of Usage resolves the model or
\* invokes persistence.
C9_DisabledUsageIsNoop ==
  ~libConfig.UsageLoggingEnabled => insertCalls = 0 /\ resolveCalls = 0

C9_Witness ==
  /\ ~libConfig.UsageLoggingEnabled
  /\ usageCalls >= 2
  /\ lastUsage.outcome = "disabled"

\* C10: with usage logging enabled, a call of Usage with a model name the
\* catalog cannot resolve returns normally and hands nothing to persistence.
C10_UnresolvedModelIsDropped ==
  [][\A a \in UsageArgs :
       (Usage(a) /\ libConfig.UsageLoggingEnabled /\ GetModel(a.modelName).err # Nil)
         => /\ insertCalls' = insertCalls
            /\ lastInsert' = lastInsert
            /\ lastUsage'.ret = "returned"]_vars

C10_Witness ==
  /\ libConfig.UsageLoggingEnabled
  /\ lastUsage.outcome = "dropped"
  /\ GetModel(lastUsage.args.modelName).err # Nil
  /\ insertCalls = 1
\* ================================================= rate-limiter claims
\* The requests the log holds as admitted for the cells of S.
RECURSIVE SumLog(_)
SumLog(S) ==
  IF S = {} THEN 0
  ELSE LET x == CHOOSE y \in S : TRUE IN admLog[x] + SumLog(S \ {x})

\* Requests of client admitted on the paths ps that arrived from lo to hi.
Admitted(client, ps, lo, hi) ==
  SumLog({x \in {client} \X ps \X (0..MaxTime) : lo <= x[3] /\ x[3] <= hi})

\* The store as it would be if only the admitted requests of client on the
\* paths ps had been counted.
OwnStore(client, ps) ==
  [k \in {KeyByIP(client)} \X (0..MaxTime) |->
     SumLog({x \in {client} \X ps \X (0..MaxTime) :
               Truncate(x[3], routes[x[2]].Expiration) = k[2]})]

\* The requests that entered a limiter in this step, and those decided in it.
Arrived == inflight' \ inflight
Decided == inflight \ inflight'

C5_NeverMoreThanMaxAdmitted ==
  \A c \in Clients, p \in DOMAIN routes, t \in 0..MaxTime :
    LET W == routes[p].Expiration
        w == Truncate(t, W)
    IN Admitted(c, {p}, w, w + W - 1) <= routes[p].Max

\* C6: a request the Auth Gate denies leaves every rate-limit counter as it
\* was.
C6_AuthDenialCountsNothing ==
  [][\A q \in Decided :
       (routes[q.path].chain[2] = "authHandler" /\ AuthOpenShieldMiddleware(q.cred) = 401)
         => store' = store]_vars

\* C7: the rate a request of client A is judged by is the rate of A's own
\* admitted requests, and a step of a request of another client B leaves
\* the rate of A on every route as it was.
C7_ClientsDoNotInterfere ==
  [][/\ \A q \in Arrived :
          q.rate = CalcRate(OwnStore(q.client, Paths), KeyByIP(q.client),
                            routes[q.path].Expiration, q.t)
     /\ \A q \in Arrived \cup Decided :
          \A c \in Clients \ {q.client}, p \in DOMAIN routes :
            CalcRate(store', KeyByIP(c), routes[p].Expiration, now)
              = CalcRate(store, KeyByIP(c), routes[p].Expiration, now)]_vars

\* Requests of two clients are inside the limiters of one route at once;
\* the first is judged by its own admitted request, the second by none.
C7_Witness ==
  \E q1 \in inflight, q2 \in inflight :
    /\ q1.client # q2.client
    /\ q1.path = q2.path
    /\ q1.t = q2.t
    /\ q1.rate > 0
    /\ q2.rate = 0

\* C8: the rate a request of a client on a route is judged by is the rate
\* of that client's admitted requests on that route alone.
C8_CountersArePerRoute ==
  [][\A q \in Arrived :
       q.rate = CalcRate(OwnStore(q.client, {q.path}), KeyByIP(q.client),
                         routes[q.path].Expiration, q.t)]_vars
\* C11: a store URI that does not parse or a store that cannot be reached
\* never ends the process.
C11_StoreFailureKeepsRunning == main # "panicked"
\* ======================================================== router claims
\* A route of the router has the request's path; one has its method too.
PathRegistered(path) == \E r \in router : Match(r.pattern, path)
Registered(method, path) ==
  \E r \in router : r.method = method /\ Match(r.pattern, path)

\* C12 (as claimed): the last request got 404 without a handler if no route
\* has its method and path, the guard's 401 without a handler if its guard
\* failed, and a handler only if it matched a route and passed the guard.
C12_NotFoundGuardOrHandler ==
  lastReq # NoReq =>
    /\ ~Registered(lastReq.method, lastReq.path)
         => lastReq.status = 404 /\ lastReq.handler = NoHandler
    /\ (Registered(lastReq.method, lastReq.path)
        /\ AuthOpenShieldMiddleware(lastReq.cred) = 401)
         => lastReq.status = 401 /\ lastReq.handler = NoHandler
    /\ lastReq.handler # NoHandler
         => /\ Registered(lastReq.method, lastReq.path)
            /\ AuthOpenShieldMiddleware(lastReq.cred) = 200

\* C12 (amended): a preflight is answered by the CORS middleware; any other
\* request gets 404 if no route has its path, 405 if routes have its path
\* but not its method, the guard's 401 if it matched and the guard failed;
\* none of these invokes a handler, and a handler is invoked only for a
\* matched request that passed the guard.
C12_PreflightNotFoundNotAllowedGuardOrHandler ==
  lastReq # NoReq =>
    LET preflight == lastReq.method = "OPTIONS"
        reg == Registered(lastReq.method, lastReq.path)
        denied == AuthOpenShieldMiddleware(lastReq.cred) = 401
    IN /\ preflight => lastReq.status = 200 /\ lastReq.handler = NoHandler
       /\ (~preflight /\ ~PathRegistered(lastReq.path))
            => lastReq.status = 404 /\ lastReq.handler = NoHandler
       /\ (~preflight /\ PathRegistered(lastReq.path) /\ ~reg)
            => lastReq.status = 405 /\ lastReq.handler = NoHandler
       /\ (~preflight /\ reg /\ denied)
            => lastReq.status = 401 /\ lastReq.handler = NoHandler
       /\ lastReq.handler # NoHandler => ~preflight /\ reg /\ ~denied

\* A request for a registered path under a method no route has.
C12_Witness ==
  /\ lastReq.method = "POST"
  /\ lastReq.path = <<"openai", "v1", "models">>
  /\ lastReq.status = 405
  /\ lastReq.handler = NoHandler
\* The handler of the AI-backend route a request is for, if any.
BackendHandler(method, path) ==
  IF method = "GET" /\ path = <<"openai", "v1", "models">> THEN "ListModelsHandler"
  ELSE IF method = "GET" /\ Len(path) = 4 /\ SubSeq(path, 1, 3) = <<"openai", "v1", "models">>
    THEN "GetModelHandler"
  ELSE IF method = "POST" /\ path = <<"openai", "v1", "chat", "completions">>
    THEN "ChatCompletionHandler"
  ELSE NoHandler

\* C13: a request for one of the three AI-backend routes that passes the
\* Auth Gate reaches that route's handler, however many requests were
\* served before, and no rate-limit counter exists or is read.
C13_BackendRoutesAreUnlimited ==
  (/\ lastReq # NoReq
   /\ BackendHandler(lastReq.method, lastReq.path) # NoHandler
   /\ AuthOpenShieldMiddleware(lastReq.cred) = 200)
  => /\ lastReq.handler = BackendHandler(lastReq.method, lastReq.path)
     /\ lastReq.status = 200
     /\ store = <<>>
     /\ inflight = {}
     /\ requests = 0

C13_Witness ==
  /\ served >= 2
  /\ lastReq.method = "POST"
  /\ lastReq.cred = "valid"
  /\ lastReq.handler = "ChatCompletionHandler"
\* C16: with usage logging enabled and a resolvable model name a call of
\* Usage resolves the model once and invokes persistence once, with the
\* resolved model's id and the call's arguments, and returns normally
\* whatever the insert's result.
C16_ResolvedUsageIsInsertedOnce ==
  [][\A a \in UsageArgs :
       (/\ usageCalls' = usageCalls + 1
        /\ lastUsage'.args = a
        /\ libConfig.UsageLoggingEnabled
        /\ GetModel(a.modelName).err = Nil)
         => /\ resolveCalls' = resolveCalls + 1
            /\ insertCalls' = insertCalls + 1
            /\ lastInsert' = [ModelID |-> GetModel(a.modelName).Id,
                              PredictedTokensCount |-> a.predictedTokensCount,
                              PromptTokensCount |-> a.promptTokensCount,
                              CompletionTokens |-> a.completionTokens,
                              TotalTokens |-> a.totalTokens,
                              FinishReason |-> a.finishReason,
                              RequestType |-> a.requestType]
            /\ lastUsage'.ret = "returned"]_vars

\* Two calls were inserted once each, and the last insert failed.
C16_Witness ==
  /\ libConfig.UsageLoggingEnabled
  /\ usageCalls = 2
  /\ insertCalls = 2
  /\ lastUsage.outcome = "inserted"
  /\ lastUsage.insert = "error"
  /\ lastUsage.ret = "returned"
  /\ lastInsert.ModelID = 7
\* The lifecycle state of StartServer. A process that the operating system
\* ended (a signal before signal.Notify) has left the lifecycle.
Phase ==
  IF main = "idle" THEN "Idle"
  ELSE IF main = "killed" THEN "Killed"
  ELSE IF main = "returned" THEN "Stopped"
  ELSE IF ctxGroup THEN "ShuttingDown"
  ELSE "Running"

\* C14: the lifecycle only moves Idle -> Running -> ShuttingDown -> Stopped;
\* Running is left only in a step in which the watcher returns nil after
\* taking a signal or the listener task ends with an error; StartServer has
\* returned only when both tasks have exited.
C14_LifecycleOrder ==
  [][/\ Phase' # Phase
          => <<Phase, Phase'>> \in {<<"Idle", "Running">>,
                                    <<"Running", "ShuttingDown">>,
                                    <<"ShuttingDown", "Stopped">>,
                                    <<"Running", "Killed">>,
                                    <<"ShuttingDown", "Killed">>}
     /\ (Phase = "Running" /\ Phase' = "ShuttingDown")
          => \/ /\ watcher # "done" /\ watcher' = "done"
                /\ watcherErr' = Nil
                /\ quit > 0
             \/ /\ listener # "done" /\ listener' = "done"
                /\ listenerErr' \in ListenerErrors
     /\ Phase' = "Stopped" => listener' = "done" /\ watcher' = "done"]_vars

\* StartServer has returned after a signal that the watcher took.
C14_Witness ==
  /\ Phase = "Stopped"
  /\ listener = "done"
  /\ watcher = "done"
  /\ sigHealthy
  /\ watcherErr = Nil

\* C15: once the shared context is cancelled no further request is accepted.
C15_NoRequestAfterCancel ==
  [][ctxGroup => served' = served]_vars

\* C17: after StartServer has loaded the configuration no step changes it,
\* neither the package variable nor what lib.GetConfig returns.
C17_ConfigWrittenOnceAtStartup ==
  [][main # "idle" => config' = config /\ libConfig' = libConfig]_vars

\* Every kind of operation has run after startup and the configuration is
\* the loaded one.
C17_Witness ==
  /\ main = "returned"
  /\ config = libConfig
  /\ config # ZeroConfig
  /\ usageCalls > 0
  /\ served > 0
  /\ stopCalls > 0

\* C18: whenever StartServer has returned, the listener task has returned
\* and StartServer's value is the listener task's error, never nil and never
\* the context error of the watcher.
C18_ReturnValueIsListenerError ==
  main = "returned"
    => /\ listener = "done"
       /\ retVal = listenerErr
       /\ retVal \in ListenerErrors
       /\ retVal \notin {Nil, ErrCanceled}

\* StartServer returned the serve error although the watcher returned nil
\* after a signal.
C18_Witness ==
  /\ main = "returned"
  /\ watcherErr = Nil
  /\ signals > 0
  /\ retVal = ErrServe

\* C19: a call of StopServer returns nil and leaves the two tasks, the
\* contexts, the signal registration, the router and StartServer's position
\* as they were.
C19_StopServerChangesNothing ==
  [][stopCalls' # stopCalls
       => /\ stopRet' = Nil
          /\ UNCHANGED <<main, listener, watcher, notify, quit, ctxParent,
                         ctxGroup, gErr, retVal, listenerErr, watcherErr,
                         router, config, served>>]_vars

\* StopServer was called and the listener is still serving requests.
C19_Witness ==
  /\ stopCalls > 0
  /\ stopRet = Nil
  /\ main = "waiting"
  /\ listener = "serving"
  /\ ~ctxGroup
  /\ served > 0
====
